---- MODULE Spec2Model ----
(***************************************************************************)
(* The AuthForm component of ui/app/components/auth-form.js: its           *)
(* attribute-change passes (didReceiveAttrs and the callbacks it defers    *)
(* with next()), its ember-concurrency tasks (unwrapToken, fetchMethods,   *)
(* authenticate, delayAuthMessageReminder), its actions (doSubmit,         *)
(* handleError), its default selection after a render (didRender) and its  *)
(* WebAuthn assertion ceremony (webauthnAuthenticate); the registration    *)
(* ceremony of the AuthInfo component (registerWebauthn); and the codec of *)
(* utils/encode-decode.js (bufferEncode, bufferDecode).                    *)
(*                                                                         *)
(* Values.  A selection key, a backend type and a mount path are sequences *)
(* of characters, so that the trailing-slash test of selectedAuthIsPath    *)
(* and toLowerCase are computed on the text.  Every other string is a TLA+ *)
(* string.  null/undefined is Null for those, Unset (the empty text, also  *)
(* falsy in JavaScript) for character sequences, and NoError for `error`.  *)
(* A message built by a template literal is the tuple of its parts.        *)
(***************************************************************************)
EXTENDS Integers, Sequences, FiniteSets, TLC

VARIABLES
    component,      \* the component's own properties (this.*)
    isDestroyed,    \* the component was unmounted
    timers,         \* callbacks deferred with next(), in firing order
    unwrapToken,    \* running unwrapToken instances, suspended at the unwrap call
    fetchMethods,   \* running fetchMethods instances, suspended at findAll
    authCalls,      \* every call of auth.authenticate made so far, in start order
    authenticate,   \* indices of authCalls whose task instance is still suspended
    reminders,      \* delayAuthMessageReminder instances waiting on their timeout
    showLoading,    \* the value written by `this.showLoading = true`
    unwrapCalls,    \* per wrapped token: number of unwrap calls started
    unwrapOk,       \* unwrap calls that succeeded: {[wrapped, client]}
    unwrapFailed,   \* wrapped tokens whose unwrap call failed
    handled,        \* wrapped tokens seen by a deferred callback that ran
    firstToken,     \* the first of them
    onSuccessCalls, \* ids of the authCalls handed to onSuccess
    lastWriter,     \* id of the authenticate instance that settled last
    uncaught,       \* operations an exception escaped from
    passes,         \* number of didReceiveAttrs after the initial one
    submits,        \* number of doSubmit by the user
    lastOp,         \* the step taken last, with its inputs
    login,          \* the webauthnAuthenticate ceremony of the form
    register,       \* the registerWebauthn ceremony of AuthInfo
    codec           \* an application of bufferEncode and bufferDecode

vars == <<component, isDestroyed, timers, unwrapToken, fetchMethods, authCalls,
          authenticate, reminders, showLoading, unwrapCalls, unwrapOk,
          unwrapFailed, handled, firstToken, onSuccessCalls, lastWriter, uncaught,
          passes, submits, lastOp, login, register, codec>>

\* The ceremonies and the codec, which the form's own steps leave alone.
ceremonyVars == <<login, register, codec>>

\* The form, which the registration ceremony and the codec leave alone.
formVars == <<component, isDestroyed, timers, unwrapToken, fetchMethods, authCalls,
              authenticate, reminders, showLoading, unwrapCalls, unwrapOk,
              unwrapFailed, handled, firstToken, onSuccessCalls, lastWriter,
              uncaught, passes, submits>>

-----------------------------------------------------------------------------
(* Bounds of the model *)

MaxPasses == 1
MaxSubmits == 2
MaxBytes == 4
MaxMounts == 2
MaxCeremonies == 1

-----------------------------------------------------------------------------
(* Values *)

Null == "null"
Unset == <<>>
NoError == <<>>

TOKEN == <<"t", "o", "k", "e", "n">>
USERPASS == <<"u", "s", "e", "r", "p", "a", "s", "s">>
OIDC == <<"o", "i", "d", "c">>
FOO_PATH == <<"f", "o", "o", "/">>
APPROLE == <<"a", "p", "p", "r", "o", "l", "e">>

WrappedTokens == {"w1", "w2"}
ClientTokens == {"c1"}
Namespaces == {Null, "ns1"}
SelectedAuths == {Unset, TOKEN, FOO_PATH}
ServerMessages == {"m1"}
ErrorDetails == {"Not allowed"}

\* A rejection of a network call: with an errors list, or with no body at all.
Failures ==
    {[hasErrors |-> TRUE, errors |-> <<m>>] : m \in ServerMessages}
        \cup {[hasErrors |-> TRUE, errors |-> <<>>], [hasErrors |-> FALSE, errors |-> <<>>]}

\* What the mounts endpoint may report, already serialized with includeId.
FooMount == [type |-> USERPASS, path |-> FOO_PATH, id |-> "foo"]
MountLists == {<<>>, <<FooMount>>}

\* Other mounts: a second userpass mount, a mount of a type the catalog does not
\* know, and a mount whose type is spelled with a capital.
BarMount == [type |-> USERPASS, path |-> <<"b", "a", "r", "/">>, id |-> "bar"]
ApproleMount ==
    [type |-> APPROLE, path |-> <<"a", "p", "p", "r", "o", "l", "e", "/">>, id |-> "approle"]
TokMount == [type |-> <<"T", "o", "k", "e", "n">>, path |-> <<"t", "o", "k", "/">>, id |-> "tok"]

Mounts == {FooMount, BarMount, ApproleMount, TokMount}

\* The lists of at most MaxMounts mounts, each at its own path (the endpoint
\* reports an object keyed by path).
ReportedLists ==
    {l \in UNION {[1..k -> Mounts] : k \in 0..MaxMounts} :
        \A i, j \in DOMAIN l : i # j => l[i].path # l[j].path}

\* The mounts the server reports for a namespace: one userpass mount in the root
\* namespace, none in ns1.
mountsOf(ns) == IF ns = Null THEN <<FooMount>> ELSE <<>>

NullMethods == [isNull |-> TRUE, list |-> <<>>]
Methods(list) == [isNull |-> FALSE, list |-> list]

\* supportedAuthBackends(): the static catalog.
BACKENDS ==
    << [type |-> TOKEN, formAttributes |-> <<"token">>],
       [type |-> USERPASS, formAttributes |-> <<"username", "password">>],
       [type |-> OIDC, formAttributes |-> <<"role">>] >>

\* Ember.testing: the production build.
EmberTesting == FALSE

\* A variant that forgets the custom path.
DEFAULTS_noPath == [token |-> Null, username |-> Null, password |-> Null]

DEFAULTS ==
    [token |-> Null, username |-> Null, password |-> Null, customPath |-> Null]

-----------------------------------------------------------------------------
(* Property access *)

Get(c, k) == IF k \in DOMAIN c THEN c[k] ELSE Null

Set(c, k, v) == [c EXCEPT ![k] = v]

setProperties(c, props) ==
    [k \in DOMAIN c |-> IF k \in DOMAIN props THEN props[k] ELSE c[k]]

Range(s) == {s[i] : i \in DOMAIN s}

getProperties(c, attributes) == [k \in Range(attributes) |-> Get(c, k)]

assign(a, b) ==
    [k \in (DOMAIN a) \cup (DOMAIN b) |-> IF k \in DOMAIN b THEN b[k] ELSE a[k]]

NoData == [k \in {} |-> Null]

RemoveAt(s, i) == [j \in 1..(Len(s) - 1) |-> IF j < i THEN s[j] ELSE s[j + 1]]

-----------------------------------------------------------------------------
(* Backend lookup *)

toLowerChar(ch) ==
    CASE ch = "T" -> "t" [] ch = "O" -> "o" [] ch = "K" -> "k" [] ch = "E" -> "e"
      [] ch = "N" -> "n" [] ch = "U" -> "u" [] ch = "S" -> "s" [] ch = "R" -> "r"
      [] ch = "P" -> "p" [] ch = "A" -> "a" [] ch = "I" -> "i" [] ch = "D" -> "d"
      [] ch = "C" -> "c" [] OTHER -> ch

toLowerCase(s) == [i \in DOMAIN s |-> toLowerChar(s[i])]

\* The results of a lookup: an object, {} , undefined, or a TypeError.
Backend(type, id) == [kind |-> "object", type |-> type, id |-> id]
EmptyObject == [kind |-> "empty", type |-> Unset, id |-> Null]
Undefined == [kind |-> "undefined", type |-> Unset, id |-> Null]
TypeError == [kind |-> "throw", type |-> Unset, id |-> Null]

\* match('selectedAuth', /\/$/)
selectedAuthIsPath(c) ==
    LET s == c.selectedAuth IN Len(s) > 0 /\ s[Len(s)] = "/"

\* A variant that loses the mount's id.
findByPathNoId(list, selected) ==
    LET hits == {i \in DOMAIN list : list[i].path = selected}
    IN  IF hits = {} THEN Undefined
        ELSE LET i == CHOOSE i \in hits : \A j \in hits : i <= j
             IN  Backend(list[i].type, Null)

\* methods.findBy('path', selected)
findByPath(list, selected) ==
    LET hits == {i \in DOMAIN list : list[i].path = selected}
    IN  IF hits = {} THEN Undefined
        ELSE LET i == CHOOSE i \in hits : \A j \in hits : i <= j
             IN  Backend(list[i].type, list[i].id)

\* BACKENDS.findBy('type', selected)
findByType(selected) ==
    LET hits == {i \in DOMAIN BACKENDS : BACKENDS[i].type = selected}
    IN  IF hits = {} THEN Undefined
        ELSE LET i == CHOOSE i \in hits : \A j \in hits : i <= j
             IN  Backend(BACKENDS[i].type, Null)

\* A variant that looks every key up by type.
getAuthBackendByType(c, type) ==
    LET selected == IF type # Unset THEN type ELSE c.selectedAuth
    IN  IF c.methods.isNull /\ c.wrappedToken = Null THEN EmptyObject
        ELSE findByType(selected)

getAuthBackend(c, type) ==
    LET selected == IF type # Unset THEN type ELSE c.selectedAuth
        keyIsPath == selectedAuthIsPath(c)
    IN  IF c.methods.isNull /\ c.wrappedToken = Null THEN EmptyObject
        ELSE IF keyIsPath /\ type = Unset
             THEN IF c.methods.isNull THEN TypeError
                  ELSE findByPath(c.methods.list, selected)
             ELSE findByType(selected)

selectedAuthBackend(c) == getAuthBackend(c, Unset)

\* Unset stands for undefined; <<"throw">> for the TypeError of the lookup.
providerName(c) ==
    LET b == selectedAuthBackend(c)
    IN  IF b.kind = "throw" THEN <<"throw">>
        ELSE IF b.kind = "undefined" THEN Unset
        ELSE toLowerCase(IF b.type # Unset THEN b.type ELSE TOKEN)

\* BACKENDS.find(b => (b.type || '').toLowerCase() === (backend.type || '').toLowerCase())
formAttributesOf(backend) ==
    LET hits == {i \in DOMAIN BACKENDS :
                    toLowerCase(BACKENDS[i].type) = toLowerCase(backend.type)}
    IN  IF hits = {} THEN <<>>
        ELSE BACKENDS[CHOOSE i \in hits : \A j \in hits : i <= j].formAttributes

-----------------------------------------------------------------------------
(* The doSubmit action, up to its perform of authenticate *)

\* [threw, c, backend, data]: the component after `error: null`, and either the
\* arguments of authenticate.perform or the TypeError of the backend lookup.
doSubmit(c, passedData) ==
    LET c1 == setProperties(c, [error |-> NoError])
        pn == providerName(c1)
        sel == selectedAuthBackend(c1)
        backend == IF pn = OIDC THEN getAuthBackend(c1, TOKEN)
                   ELSE IF sel.kind = "undefined" THEN EmptyObject ELSE sel
        data0 == assign(getProperties(c1, formAttributesOf(backend)), passedData)
        path == IF c1.customPath # Null THEN c1.customPath ELSE backend.id
        data == IF c1.customPath # Null \/ backend.id # Null
                THEN assign(data0, [path |-> path]) ELSE data0
    IN  IF pn = <<"throw">> \/ backend.kind = "throw"
        THEN [threw |-> TRUE, c |-> c1, backend |-> Unset, data |-> NoData]
        ELSE [threw |-> FALSE, c |-> c1, backend |-> backend.type, data |-> data]

-----------------------------------------------------------------------------
(* utils/encode-decode.js: bytes are numbers 0..255, text is a sequence of    *)
(* one-character strings.                                                     *)

\* The alphabet of btoa and atob, by sextet value.
Alphabet ==
    << "A", "B", "C", "D", "E", "F", "G", "H", "I", "J", "K", "L", "M", "N", "O", "P",
       "Q", "R", "S", "T", "U", "V", "W", "X", "Y", "Z", "a", "b", "c", "d", "e", "f",
       "g", "h", "i", "j", "k", "l", "m", "n", "o", "p", "q", "r", "s", "t", "u", "v",
       "w", "x", "y", "z", "0", "1", "2", "3", "4", "5", "6", "7", "8", "9", "+", "/" >>

charOf(six) == Alphabet[six + 1]

sextetOf(ch) == (CHOOSE i \in DOMAIN Alphabet : Alphabet[i] = ch) - 1

\* btoa(String.fromCharCode.apply(null, bytes)): standard base64 with padding.
RECURSIVE btoa(_)
btoa(b) ==
    IF Len(b) = 0 THEN <<>>
    ELSE IF Len(b) = 1
    THEN <<charOf(b[1] \div 4), charOf((b[1] % 4) * 16), "=", "=">>
    ELSE IF Len(b) = 2
    THEN <<charOf(b[1] \div 4), charOf((b[1] % 4) * 16 + (b[2] \div 16)),
           charOf((b[2] % 16) * 4), "=">>
    ELSE <<charOf(b[1] \div 4), charOf((b[1] % 4) * 16 + (b[2] \div 16)),
           charOf((b[2] % 16) * 4 + (b[3] \div 64)), charOf(b[3] % 64)>>
            \o btoa(SubSeq(b, 4, Len(b)))

\* text.replace(/from/g, to)
replaceAll(text, from, to) == [i \in DOMAIN text |-> IF text[i] = from THEN to ELSE text[i]]

\* text.replace(/ch/g, '')
removeAll(text, ch) == SelectSeq(text, LAMBDA c : c # ch)

bufferEncode(value) ==
    removeAll(replaceAll(replaceAll(btoa(value), "+", "-"), "/", "_"), "=")

\* The bytes of a sequence of sextets whose length is not 1 modulo 4; the bits
\* left over at the end are dropped.
RECURSIVE bytesOf(_)
bytesOf(t) ==
    IF Len(t) < 2 THEN <<>>
    ELSE IF Len(t) = 2 THEN <<t[1] * 4 + (t[2] \div 16)>>
    ELSE IF Len(t) = 3
    THEN <<t[1] * 4 + (t[2] \div 16), (t[2] % 16) * 16 + (t[3] \div 4)>>
    ELSE <<t[1] * 4 + (t[2] \div 16), (t[2] % 16) * 16 + (t[3] \div 4),
           (t[3] % 4) * 64 + t[4]>> \o bytesOf(SubSeq(t, 5, Len(t)))

\* What atob throws on text it does not accept.
InvalidCharacterError == [ok |-> FALSE, bytes |-> <<>>]

\* atob(text), the forgiving base64 decode: one or two trailing = are dropped
\* when the length is a multiple of 4; a length of 1 modulo 4 or a character
\* outside the alphabet is refused.
atob(text) ==
    LET n == Len(text)
        pad == IF n > 0 /\ n % 4 = 0 /\ text[n] = "="
               THEN (IF text[n - 1] = "=" THEN 2 ELSE 1) ELSE 0
        data == SubSeq(text, 1, n - pad)
    IN  IF Len(data) % 4 = 1 \/ \E i \in DOMAIN data : data[i] \notin Range(Alphabet)
        THEN InvalidCharacterError
        ELSE [ok |-> TRUE, bytes |-> bytesOf([i \in DOMAIN data |-> sextetOf(data[i])])]

\* Uint8Array.from(atob(value), c => c.charCodeAt(0))
bufferDecode(value) == atob(value)

-----------------------------------------------------------------------------
(* Initial state: the component as constructed and first rendered, with the   *)
(* attributes its parent passes and the callback of the first didReceiveAttrs *)
(* deferred.                                                                  *)

\* What didReceiveAttrs reads from the component when it is called.
capture(c, initial) ==
    [token |-> c.wrappedToken, oldToken |-> c.oldWrappedToken,
     oldNS |-> c.oldNamespace, ns |-> c.namespace,
     newMethod |-> c.selectedAuth, oldMethod |-> c.oldSelectedAuth,
     initial |-> initial]

construct(wt, ns, sa) ==
    [selectedAuth |-> sa, methods |-> NullMethods, namespace |-> ns,
     wrappedToken |-> wt, oldNamespace |-> Null, oldWrappedToken |-> Null,
     oldSelectedAuth |-> Unset, token |-> Null, username |-> Null,
     password |-> Null, customPath |-> Null, error |-> NoError,
     isLoading |-> FALSE]

\* The form as its parent mounts it.
InitForm ==
    /\ \E wt \in WrappedTokens \cup {Null}, ns \in Namespaces, sa \in SelectedAuths :
          /\ component = construct(wt, ns, sa)
          /\ timers = <<capture(construct(wt, ns, sa), TRUE)>>
    /\ isDestroyed = FALSE
    /\ unwrapToken = <<>>
    /\ fetchMethods = <<>>
    /\ authCalls = <<>>
    /\ authenticate = {}
    /\ reminders = 0
    /\ showLoading = FALSE
    /\ unwrapCalls = [w \in WrappedTokens |-> 0]
    /\ unwrapOk = {}
    /\ unwrapFailed = {}
    /\ handled = {}
    /\ firstToken = Null
    /\ onSuccessCalls = {}
    /\ lastWriter = 0
    /\ uncaught = {}
    /\ passes = 0
    /\ submits = 0
    /\ lastOp = [op |-> "init"]

\* Nothing submitted to the codec; no ceremony started.
CodecIdle ==
    [pc |-> "idle", input |-> <<>>, text |-> <<>>, out |-> [ok |-> TRUE, bytes |-> <<>>]]

LoginIdle ==
    [pc |-> "idle", runs |-> 0, username |-> Null, calls |-> <<>>, logged |-> FALSE,
     finishOk |-> TRUE]

RegisterIdle ==
    [pc |-> "idle", runs |-> 0, steps |-> <<>>, alerts |-> <<>>, failed |-> FALSE,
     finishOk |-> TRUE]

Init ==
    /\ InitForm
    /\ login = LoginIdle
    /\ register = RegisterIdle
    /\ codec = CodecIdle

-----------------------------------------------------------------------------
(* Attribute-change passes *)

\* The parent renders again: the attributes take the values it passes and
\* didReceiveAttrs defers its callback with next().
didReceiveAttrs(wt, ns, sa) ==
    /\ ~isDestroyed
    /\ passes < MaxPasses
    /\ passes' = passes + 1
    /\ LET c == setProperties(component,
                    [wrappedToken |-> wt, namespace |-> ns, selectedAuth |-> sa])
       IN  /\ component' = c
           /\ timers' = Append(timers, capture(c, FALSE))
    /\ lastOp' = [op |-> "didReceiveAttrs"]
    /\ UNCHANGED ceremonyVars
    /\ UNCHANGED <<isDestroyed, unwrapToken, fetchMethods, authCalls, authenticate,
                   reminders, showLoading, unwrapCalls, unwrapOk,
                   unwrapFailed, handled, firstToken, onSuccessCalls, lastWriter,
                   uncaught, submits>>

\* if (!token && (oldNS === null || oldNS !== ns))
fetchTrigger(p) == p.token = Null /\ (p.oldNS = Null \/ p.oldNS # p.ns)

\* A variant that compares the token with the one handled last.
unwrapTriggerChanged(p) == p.token # Null /\ p.token # p.oldToken

\* if (token && !oldToken)
unwrapTrigger(p) == p.token # Null /\ p.oldToken = Null

\* if (oldMethod && oldMethod !== newMethod)
resetTrigger(p) == p.oldMethod # Unset /\ p.oldMethod # p.newMethod

resetDefaults(c) == setProperties(c, DEFAULTS)

\* A variant that applies the reset before it starts the unwrap.
callbackStepsResetFirst(c, p) ==
    LET c1 == Set(c, "oldNamespace", p.ns)
        c2 == IF resetTrigger(p) THEN resetDefaults(c1) ELSE c1
        c3 == IF unwrapTrigger(p)
              THEN Set(Set(c2, "selectedAuth", TOKEN), "oldWrappedToken", p.token)
              ELSE c2
        c4 == Set(c3, "oldSelectedAuth", p.newMethod)
    IN  (IF fetchTrigger(p)
         THEN <<[step |-> "fetchMethods.perform", on |-> c, then |-> c]>> ELSE <<>>)
        \o <<[step |-> "set oldNamespace", on |-> c, then |-> c1]>>
        \o (IF resetTrigger(p)
            THEN <<[step |-> "resetDefaults", on |-> c1, then |-> c2]>> ELSE <<>>)
        \o (IF unwrapTrigger(p)
            THEN <<[step |-> "unwrapToken.perform", on |-> c2, then |-> c3]>> ELSE <<>>)
        \o <<[step |-> "set oldSelectedAuth", on |-> c3, then |-> c4]>>

\* The statements the deferred callback of a pass that captured p executes, in
\* order, each with the component it finds and the component it leaves.
\* fetchMethods.perform runs the task to its first yield, which sets nothing;
\* unwrapToken.perform runs the task to its first yield, which sets selectedAuth.
callbackSteps(c, p) ==
    LET c1 == Set(c, "oldNamespace", p.ns)
        c2 == IF unwrapTrigger(p)
              THEN Set(Set(c1, "selectedAuth", TOKEN), "oldWrappedToken", p.token)
              ELSE c1
        c3 == IF resetTrigger(p) THEN resetDefaults(c2) ELSE c2
        c4 == Set(c3, "oldSelectedAuth", p.newMethod)
    IN  (IF fetchTrigger(p)
         THEN <<[step |-> "fetchMethods.perform", on |-> c, then |-> c]>> ELSE <<>>)
        \o <<[step |-> "set oldNamespace", on |-> c, then |-> c1]>>
        \o (IF unwrapTrigger(p)
            THEN <<[step |-> "unwrapToken.perform", on |-> c1, then |-> c2]>> ELSE <<>>)
        \o (IF resetTrigger(p)
            THEN <<[step |-> "resetDefaults", on |-> c2, then |-> c3]>> ELSE <<>>)
        \o <<[step |-> "set oldSelectedAuth", on |-> c3, then |-> c4]>>

\* The component after the deferred callback of a pass that captured p.
afterCallback(c, p) ==
    LET steps == callbackSteps(c, p)
    IN  steps[Len(steps)].then

\* A variant in which the tasks outlive the component.
neverCancelled == FALSE

\* A task instance of a destroyed component is cancelled: it never resumes, and
\* set() on a destroyed object changes nothing.
cancelled == isDestroyed

\* The callback deferred by didReceiveAttrs runs.
nextCallback ==
    /\ timers # <<>>
    /\ timers' = Tail(timers)
    /\ LET p == Head(timers)
       IN  IF cancelled
           THEN /\ lastOp' = [op |-> "next", reset |-> FALSE]
                /\ UNCHANGED <<component, fetchMethods, unwrapToken, unwrapCalls,
                               handled, firstToken>>
           ELSE /\ component' = afterCallback(component, p)
                /\ fetchMethods' = IF fetchTrigger(p)
                                   THEN Append(fetchMethods, [ns |-> component.namespace])
                                   ELSE fetchMethods
                /\ unwrapToken' = IF unwrapTrigger(p)
                                  THEN Append(unwrapToken, [token |-> p.token])
                                  ELSE unwrapToken
                /\ unwrapCalls' = IF unwrapTrigger(p)
                                  THEN [unwrapCalls EXCEPT ![p.token] = @ + 1]
                                  ELSE unwrapCalls
                /\ handled' = IF p.token # Null THEN handled \cup {p.token} ELSE handled
                /\ firstToken' = IF firstToken = Null THEN p.token ELSE firstToken
                /\ lastOp' = [op |-> "next", reset |-> resetTrigger(p)]
    /\ UNCHANGED ceremonyVars
    /\ UNCHANGED <<isDestroyed, authCalls, authenticate, reminders, showLoading, unwrapOk, unwrapFailed, onSuccessCalls, lastWriter,
                   uncaught, passes, submits>>

-----------------------------------------------------------------------------
(* Candidate methods and the default selection *)

\* A variant that compares the types as they are spelled.
isSupportedExact(m) == \E i \in DOMAIN BACKENDS : BACKENDS[i].type = m.type

\* BACKENDS.find((b) => b.type.toLowerCase() === m.type.toLowerCase())
isSupported(m) ==
    \E i \in DOMAIN BACKENDS : toLowerCase(BACKENDS[i].type) = toLowerCase(m.type)

\* A variant that always appends the catalog.
methodsToShowWithCatalog(c) ==
    LET methods == IF c.methods.isNull THEN <<>> ELSE c.methods.list
    IN  SelectSeq(methods, isSupported) \o BACKENDS

methodsToShow(c) ==
    LET methods == IF c.methods.isNull THEN <<>> ELSE c.methods.list
        shownMethods == SelectSeq(methods, isSupported)
    IN  IF Len(shownMethods) > 0 THEN shownMethods ELSE BACKENDS

\* m.path, Unset for an entry of the catalog
pathOf(m) == IF "path" \in DOMAIN m THEN m.path ELSE Unset

\* methodsToShow.isAny('path')
hasMethodsWithPath(c) ==
    \E i \in DOMAIN methodsToShow(c) : pathOf(methodsToShow(c)[i]) # Unset

allSupportedMethods(c) ==
    IF hasMethodsWithPath(c) THEN methodsToShow(c) \o BACKENDS ELSE methodsToShow(c)

\* A variant that always uses the type as the key.
firstMethodByType(c) ==
    IF methodsToShow(c) = <<>> THEN Unset ELSE Head(methodsToShow(c)).type

\* Unset stands for undefined.
firstMethod(c) ==
    IF methodsToShow(c) = <<>> THEN Unset
    ELSE LET first == Head(methodsToShow(c))
         IN  IF pathOf(first) # Unset THEN pathOf(first) ELSE first.type

\* A variant that takes the empty descriptor for no backend.
shouldSelectNoEmpty(c, isIdle) ==
    /\ c.wrappedToken = Null
    /\ \/ (isIdle /\ firstMethod(c) # Unset /\ c.selectedAuth = Unset)
       \/ (c.selectedAuth # Unset /\ selectedAuthBackend(c).kind # "object")

\* The condition of the callback deferred by didRender; isIdle is
\* fetchMethods.isIdle. The empty descriptor {} is truthy, undefined is not.
shouldSelect(c, isIdle) ==
    /\ c.wrappedToken = Null
    /\ \/ (isIdle /\ firstMethod(c) # Unset /\ c.selectedAuth = Unset)
       \/ (c.selectedAuth # Unset /\ selectedAuthBackend(c).kind = "undefined")

\* The callback deferred by didRender, on component c; isIdle is fetchMethods.isIdle.
afterRender(c, isIdle) ==
    IF shouldSelect(c, isIdle)
    THEN Set(c, "selectedAuth", firstMethod(c))
    ELSE c

\* The component has rendered and the callback deferred by didRender runs.
didRender ==
    /\ component' = IF cancelled THEN component
                    ELSE afterRender(component, fetchMethods = <<>>)
    /\ lastOp' = [op |-> "didRender"]
    /\ UNCHANGED ceremonyVars
    /\ UNCHANGED <<isDestroyed, timers, unwrapToken, fetchMethods, authCalls,
                   authenticate, reminders, showLoading, unwrapCalls, unwrapOk,
                   unwrapFailed, handled, firstToken, onSuccessCalls, lastWriter,
                   uncaught, passes, submits>>

-----------------------------------------------------------------------------
(* The authenticate task, from perform to its yield *)

\* authenticate.unlinked().perform(backendType, data): the task reads selectedAuth,
\* performs delayAuthMessageReminder and suspends at auth.authenticate.
performAuthenticate(origin, c, backendType, data) ==
    /\ authCalls' = Append(authCalls,
                           [origin |-> origin, backend |-> backendType, data |-> data,
                            selectedAuth |-> c.selectedAuth])
    /\ authenticate' = authenticate \cup {Len(authCalls) + 1}
    /\ reminders' = reminders + 1
    /\ showLoading' = (showLoading \/ EmberTesting)

-----------------------------------------------------------------------------
(* The unwrapToken task, from its yield on *)

\* catch (e) { this.set('error', `Token unwrap failed: ${e.errors[0]}`) }
\* e.errors[0] of an empty list is undefined; of a missing list, a TypeError.
unwrapError(e) ==
    <<"Token unwrap failed: ", IF e.errors = <<>> THEN "undefined" ELSE e.errors[1]>>

\* The unwrap call of instance i resolves with client token ct.
unwrapSucceed(i, ct) ==
    /\ i \in DOMAIN unwrapToken
    /\ unwrapToken' = RemoveAt(unwrapToken, i)
    /\ lastOp' = [op |-> "unwrapSucceed"]
    /\ IF cancelled
       THEN UNCHANGED <<component, authCalls, authenticate, reminders, showLoading,
                        unwrapOk, uncaught>>
       ELSE LET w == unwrapToken[i].token
                r == doSubmit(Set(component, "token", ct), NoData)
            IN  /\ component' = r.c
                /\ unwrapOk' = unwrapOk \cup {[wrapped |-> w, client |-> ct]}
                /\ IF r.threw
                   THEN \* the TypeError reaches the catch, whose e.errors[0] throws
                        /\ uncaught' = uncaught \cup {"unwrapToken.doSubmit"}
                        /\ UNCHANGED <<authCalls, authenticate, reminders, showLoading>>
                   ELSE /\ performAuthenticate(w, r.c, r.backend, r.data)
                        /\ UNCHANGED uncaught
    /\ UNCHANGED ceremonyVars
    /\ UNCHANGED <<isDestroyed, timers, fetchMethods, unwrapCalls,
                   unwrapFailed, handled, firstToken, onSuccessCalls, lastWriter, passes, submits>>

\* The unwrap call of instance i rejects with e.
unwrapFail(i, e) ==
    /\ i \in DOMAIN unwrapToken
    /\ unwrapToken' = RemoveAt(unwrapToken, i)
    /\ lastOp' = [op |-> "unwrapFail"]
    /\ IF cancelled
       THEN UNCHANGED <<component, unwrapFailed, uncaught>>
       ELSE /\ unwrapFailed' = unwrapFailed \cup {unwrapToken[i].token}
            /\ IF e.hasErrors
               THEN /\ component' = Set(component, "error", unwrapError(e))
                    /\ UNCHANGED uncaught
               ELSE /\ uncaught' = uncaught \cup {"unwrapToken"}
                    /\ UNCHANGED component
    /\ UNCHANGED ceremonyVars
    /\ UNCHANGED <<isDestroyed, timers, fetchMethods, authCalls, authenticate,
                   reminders, showLoading, unwrapCalls, unwrapOk, handled,
                   firstToken, onSuccessCalls, lastWriter, passes,
                   submits>>

-----------------------------------------------------------------------------
(* The fetchMethods task, from its yield on *)

fetchError(e) ==
    <<"There was an error fetching Auth Methods: ",
      IF e.errors = <<>> THEN "undefined" ELSE e.errors[1]>>

\* findAll of instance i resolves with the mounts.
fetchSucceed(i, mounts) ==
    /\ i \in DOMAIN fetchMethods
    /\ fetchMethods' = RemoveAt(fetchMethods, i)
    /\ lastOp' = [op |-> "fetchSucceed"]
    /\ component' = IF cancelled THEN component
                    ELSE Set(component, "methods", Methods(mounts))
    /\ UNCHANGED ceremonyVars
    /\ UNCHANGED <<isDestroyed, timers, unwrapToken, authCalls, authenticate,
                   reminders, showLoading, unwrapCalls, unwrapOk,
                   unwrapFailed, handled, firstToken, onSuccessCalls, lastWriter,
                   uncaught, passes, submits>>

\* findAll of instance i rejects with e.
fetchFail(i, e) ==
    /\ i \in DOMAIN fetchMethods
    /\ fetchMethods' = RemoveAt(fetchMethods, i)
    /\ lastOp' = [op |-> "fetchFail"]
    /\ IF cancelled
       THEN UNCHANGED <<component, uncaught>>
       ELSE IF e.hasErrors
            THEN /\ component' = Set(component, "error", fetchError(e))
                 /\ UNCHANGED uncaught
            ELSE /\ uncaught' = uncaught \cup {"fetchMethods"}
                 /\ UNCHANGED component
    /\ UNCHANGED ceremonyVars
    /\ UNCHANGED <<isDestroyed, timers, unwrapToken, authCalls, authenticate,
                   reminders, showLoading, unwrapCalls, unwrapOk,
                   unwrapFailed, handled, firstToken, onSuccessCalls, lastWriter, passes, submits>>

-----------------------------------------------------------------------------
(* The authenticate task, from its yield on *)

\* auth.authenticate of call id resolves: this.onSuccess(authResponse, backendType, data)
authSucceed(id) ==
    /\ id \in authenticate
    /\ authenticate' = authenticate \ {id}
    /\ lastOp' = [op |-> "authSucceed"]
    /\ IF cancelled
       THEN UNCHANGED <<onSuccessCalls, lastWriter>>
       ELSE /\ onSuccessCalls' = onSuccessCalls \cup {id}
            /\ lastWriter' = id
    /\ UNCHANGED ceremonyVars
    /\ UNCHANGED <<component, isDestroyed, timers, unwrapToken, fetchMethods,
                   authCalls, reminders, showLoading, unwrapCalls, unwrapOk,
                   unwrapFailed, handled, firstToken, uncaught,
                   passes, submits>>

\* A variant that reports every failure as a generic error.
authenticateCatchAll(c, mfaError, detail) ==
    Set(Set(c, "isLoading", FALSE), "error", <<"Authentication failed: ", detail>>)

\* The catch block: mfaError is auth.mfaError, detail is auth.handleError(e).
authenticateCatch(c, mfaError, detail) ==
    LET c1 == Set(c, "isLoading", FALSE)
    IN  IF ~mfaError THEN Set(c1, "error", <<"Authentication failed: ", detail>>)
        ELSE c1

\* auth.authenticate of call id rejects.
authFail(id, mfaError, detail) ==
    /\ id \in authenticate
    /\ authenticate' = authenticate \ {id}
    /\ lastOp' = [op |-> "authFail", mfaError |-> mfaError, detail |-> detail]
    /\ IF cancelled
       THEN UNCHANGED <<component, lastWriter>>
       ELSE /\ component' = authenticateCatch(component, mfaError, detail)
            /\ lastWriter' = id
    /\ UNCHANGED ceremonyVars
    /\ UNCHANGED <<isDestroyed, timers, unwrapToken, fetchMethods, authCalls,
                   reminders, showLoading, unwrapCalls, unwrapOk,
                   unwrapFailed, handled, firstToken, onSuccessCalls, uncaught, passes, submits>>

\* The timeout of a delayAuthMessageReminder instance elapses.
reminderFire ==
    /\ reminders > 0
    /\ ~cancelled
    /\ reminders' = reminders - 1
    /\ lastOp' = [op |-> "reminderFire"]
    /\ UNCHANGED ceremonyVars
    /\ UNCHANGED <<component, isDestroyed, timers, unwrapToken, fetchMethods,
                   authCalls, authenticate, showLoading, unwrapCalls,
                   unwrapOk, unwrapFailed, handled, firstToken, onSuccessCalls,
                   lastWriter, uncaught, passes, submits>>

-----------------------------------------------------------------------------
(* The user and the host *)

\* The user submits the form: actions.doSubmit.
submit ==
    /\ ~isDestroyed
    /\ submits < MaxSubmits
    /\ submits' = submits + 1
    /\ LET r == doSubmit(component, NoData)
       IN  /\ component' = r.c
           /\ lastOp' = [op |-> "submit", threw |-> r.threw]
           /\ IF r.threw
              THEN /\ uncaught' = uncaught \cup {"doSubmit"}
                   /\ UNCHANGED <<authCalls, authenticate, reminders, showLoading>>
              ELSE /\ performAuthenticate("user", r.c, r.backend, r.data)
                   /\ UNCHANGED uncaught
    /\ UNCHANGED ceremonyVars
    /\ UNCHANGED <<isDestroyed, timers, unwrapToken, fetchMethods,
                   unwrapCalls, unwrapOk, unwrapFailed, handled, firstToken,
                   onSuccessCalls, lastWriter, passes>>

\* actions.handleError(e): e is null or an error that auth.handleError turns into detail.
handleError(hasError, detail) ==
    /\ ~isDestroyed
    /\ component' = setProperties(component,
                        [isLoading |-> FALSE,
                         error |-> IF hasError THEN <<detail>> ELSE NoError])
    /\ lastOp' = [op |-> "handleError"]
    /\ UNCHANGED ceremonyVars
    /\ UNCHANGED <<isDestroyed, timers, unwrapToken, fetchMethods, authCalls,
                   authenticate, reminders, showLoading, unwrapCalls,
                   unwrapOk, unwrapFailed, handled, firstToken, onSuccessCalls,
                   lastWriter, uncaught, passes, submits>>

\* The user fills the fields of the form.
fillForm ==
    /\ ~isDestroyed
    /\ component' = setProperties(component,
                        [token |-> "t1", username |-> "u1", password |-> "p1",
                         customPath |-> "cp"])
    /\ lastOp' = [op |-> "fillForm"]
    /\ UNCHANGED ceremonyVars
    /\ UNCHANGED <<isDestroyed, timers, unwrapToken, fetchMethods, authCalls,
                   authenticate, reminders, showLoading, unwrapCalls,
                   unwrapOk, unwrapFailed, handled, firstToken, onSuccessCalls,
                   lastWriter, uncaught, passes, submits>>

\* A child form raises the loading flag.
setLoading ==
    /\ ~isDestroyed
    /\ ~component.isLoading
    /\ component' = Set(component, "isLoading", TRUE)
    /\ lastOp' = [op |-> "setLoading"]
    /\ UNCHANGED ceremonyVars
    /\ UNCHANGED <<isDestroyed, timers, unwrapToken, fetchMethods, authCalls,
                   authenticate, reminders, showLoading, unwrapCalls,
                   unwrapOk, unwrapFailed, handled, firstToken, onSuccessCalls,
                   lastWriter, uncaught, passes, submits>>

\* The component is unmounted.
destroy ==
    /\ ~isDestroyed
    /\ isDestroyed' = TRUE
    /\ lastOp' = [op |-> "destroy"]
    /\ UNCHANGED ceremonyVars
    /\ UNCHANGED <<component, timers, unwrapToken, fetchMethods, authCalls,
                   authenticate, reminders, showLoading, unwrapCalls,
                   unwrapOk, unwrapFailed, handled, firstToken, onSuccessCalls,
                   lastWriter, uncaught, passes, submits>>

-----------------------------------------------------------------------------
(* The codec applied to credential material *)

\* Byte values whose sextets reach both ends of the alphabet: 251 encodes with
\* "+", 255 with "/".
ByteValues == {0, 65, 251, 255}

ByteSeqs == UNION {[1..k -> ByteValues] : k \in 0..MaxBytes}

\* Binary material b is encoded for transmission.
encode(b) ==
    /\ codec.pc = "idle"
    /\ codec' = [codec EXCEPT !.pc = "encoded", !.input = b, !.text = bufferEncode(b)]
    /\ lastOp' = [op |-> "bufferEncode"]
    /\ UNCHANGED <<login, register>>
    /\ UNCHANGED formVars

\* The transmitted text is decoded by the receiver.
decode ==
    /\ codec.pc = "encoded"
    /\ codec' = [codec EXCEPT !.pc = "decoded", !.out = bufferDecode(codec.text)]
    /\ lastOp' = [op |-> "bufferDecode"]
    /\ UNCHANGED <<login, register>>
    /\ UNCHANGED formVars

-----------------------------------------------------------------------------
(* The WebAuthn ceremonies.  A ceremony is a chain of promises: each step     *)
(* below is one link, run when the call before it settles; a rejection or an  *)
(* exception anywhere goes to the .catch at the end of the chain.             *)

\* Base64url text a relying party may send: the encodings of [65] and [251].
ChallengeTexts == {bufferEncode(<<65>>), bufferEncode(<<251>>)}

\* How a fetch may settle: the network rejects it, the body is not JSON, the
\* body is JSON without the options (an error answer), or it holds the options.
NoOptions ==
    {[kind |-> k, challenge |-> <<>>, user |-> <<>>, ids |-> <<>>] :
        k \in {"reject", "notJson", "noOptions"}}

LoginOptions ==
    {[kind |-> "options", challenge |-> ch, user |-> <<>>, ids |-> ids] :
        ch \in ChallengeTexts, ids \in {<<>>} \cup {<<t>> : t \in ChallengeTexts}}

RegisterOptions ==
    {[kind |-> "options", challenge |-> ch, user |-> u, ids |-> ids] :
        ch \in ChallengeTexts, u \in ChallengeTexts,
        ids \in {<<>>} \cup {<<t>> : t \in ChallengeTexts}}

\* How the finish request may settle; ok is the 2xx status of the answer.
FinishResponses ==
    {[kind |-> "reject", ok |-> FALSE]}
        \cup {[kind |-> k, ok |-> ok] : k \in {"notJson", "json"}, ok \in BOOLEAN}

\* Every text of the options decodes.
decodes(texts) == \A i \in DOMAIN texts : bufferDecode(texts[i]).ok

\* .catch(e => { console.error(e) }) of webauthnAuthenticate
loginCatch(l) == [l EXCEPT !.pc = "failed", !.logged = TRUE]

\* webauthnAuthenticate.perform(e): reads the username and requests the options.
webauthnAuthenticate ==
    /\ ~isDestroyed
    /\ login.pc \in {"idle", "done", "failed"}
    /\ login.runs < MaxCeremonies
    /\ login' = [pc |-> "begin", runs |-> login.runs + 1,
                 username |-> component.username, calls |-> <<"begin">>,
                 logged |-> FALSE, finishOk |-> TRUE]
    /\ lastOp' = [op |-> "webauthnAuthenticate"]
    /\ UNCHANGED <<register, codec>>
    /\ UNCHANGED formVars

\* fetch(`/login/begin/${username}`) settles: res.json(), the challenge and the
\* allowed credential ids are decoded and navigator.credentials.get is called.
loginBegin(res) ==
    /\ login.pc = "begin"
    /\ login' = IF res.kind = "options" /\ decodes(<<res.challenge>> \o res.ids)
                THEN [login EXCEPT !.pc = "get", !.calls = Append(@, "get")]
                ELSE loginCatch(login)
    /\ lastOp' = [op |-> "loginBegin"]
    /\ UNCHANGED <<register, codec>>
    /\ UNCHANGED formVars

\* navigator.credentials.get settles: the assertion is encoded and posted to
\* /login/finish.
loginGet(resolved) ==
    /\ login.pc = "get"
    /\ login' = IF resolved
                THEN [login EXCEPT !.pc = "finish", !.calls = Append(@, "finish")]
                ELSE loginCatch(login)
    /\ lastOp' = [op |-> "loginGet"]
    /\ UNCHANGED <<register, codec>>
    /\ UNCHANGED formVars

\* fetch(`/login/finish/${username}`) settles: res.json(), and a last link that
\* does nothing with the answer.
loginFinish(res) ==
    /\ login.pc = "finish"
    /\ login' = IF res.kind = "json"
                THEN [login EXCEPT !.pc = "done", !.finishOk = res.ok]
                ELSE loginCatch([login EXCEPT !.finishOk = FALSE])
    /\ lastOp' = [op |-> "loginFinish"]
    /\ UNCHANGED <<register, codec>>
    /\ UNCHANGED formVars

\* .catch((error) => { console.log(error); alert(`failed to register ...`) })
registerCatch(r) ==
    [r EXCEPT !.pc = "done", !.failed = TRUE, !.alerts = Append(@, "failed")]

\* registerWebauthn.perform(): prompts for the username and requests the options.
registerWebauthn ==
    /\ register.pc \in {"idle", "done"}
    /\ register.runs < MaxCeremonies
    /\ register' = [pc |-> "begin", runs |-> register.runs + 1,
                    steps |-> <<"Prompt", "ChallengeFetch">>, alerts |-> <<>>,
                    failed |-> FALSE, finishOk |-> TRUE]
    /\ lastOp' = [op |-> "registerWebauthn"]
    /\ UNCHANGED <<login, codec>>
    /\ UNCHANGED formVars

\* fetch(.../register/begin) settles: res.json(), the challenge, the user id and
\* the excluded credential ids are decoded and navigator.credentials.create is
\* called.
registerBegin(res) ==
    /\ register.pc = "begin"
    /\ register' =
          IF res.kind # "options" THEN registerCatch(register)
          ELSE IF ~decodes(<<res.challenge, res.user>> \o res.ids)
          THEN registerCatch([register EXCEPT !.steps = Append(@, "Decode")])
          ELSE [register EXCEPT !.pc = "create",
                                !.steps = @ \o <<"Decode", "CredentialCreate">>]
    /\ lastOp' = [op |-> "registerBegin"]
    /\ UNCHANGED <<login, codec>>
    /\ UNCHANGED formVars

\* navigator.credentials.create settles: the credential is encoded and posted to
\* /register/finish.
registerCreate(resolved) ==
    /\ register.pc = "create"
    /\ register' = IF resolved
                   THEN [register EXCEPT !.pc = "finish",
                                         !.steps = @ \o <<"Encode", "Submit">>]
                   ELSE registerCatch(register)
    /\ lastOp' = [op |-> "registerCreate"]
    /\ UNCHANGED <<login, codec>>
    /\ UNCHANGED formVars

\* fetch(`/register/finish/${username}`) settles: res.json(), then
\* alert(`successfully registered ...`).
registerFinish(res) ==
    /\ register.pc = "finish"
    /\ register' =
          IF res.kind = "json"
          THEN [register EXCEPT !.pc = "done", !.finishOk = res.ok,
                                !.alerts = Append(@, "success")]
          ELSE registerCatch([register EXCEPT !.finishOk = FALSE])
    /\ lastOp' = [op |-> "registerFinish"]
    /\ UNCHANGED <<login, codec>>
    /\ UNCHANGED formVars

-----------------------------------------------------------------------------

\* The steps the program takes by itself: deferred callbacks and task continuations.
Program ==
    \/ nextCallback
    \/ \E i \in DOMAIN unwrapToken, ct \in ClientTokens : unwrapSucceed(i, ct)
    \/ \E i \in DOMAIN unwrapToken, e \in Failures : unwrapFail(i, e)
    \/ \E i \in DOMAIN fetchMethods, m \in MountLists : fetchSucceed(i, m)
    \/ \E i \in DOMAIN fetchMethods, e \in Failures : fetchFail(i, e)
    \/ \E id \in authenticate : authSucceed(id)
    \/ \E id \in authenticate, mfaError \in BOOLEAN, detail \in ErrorDetails :
          authFail(id, mfaError, detail)
    \/ reminderFire

\* The assertion ceremony of the form.
Login ==
    \/ webauthnAuthenticate
    \/ \E res \in NoOptions \cup LoginOptions : loginBegin(res)
    \/ \E resolved \in BOOLEAN : loginGet(resolved)
    \/ \E res \in FinishResponses : loginFinish(res)

\* The registration ceremony of AuthInfo.
Register ==
    \/ registerWebauthn
    \/ \E res \in NoOptions \cup RegisterOptions : registerBegin(res)
    \/ \E resolved \in BOOLEAN : registerCreate(resolved)
    \/ \E res \in FinishResponses : registerFinish(res)

Next ==
    \/ Program
    \/ didRender
    \/ \E wt \in WrappedTokens \cup {Null}, ns \in Namespaces, sa \in SelectedAuths :
          didReceiveAttrs(wt, ns, sa)
    \/ submit
    \/ \E hasError \in BOOLEAN, detail \in ErrorDetails : handleError(hasError, detail)
    \/ fillForm
    \/ setLoading
    \/ destroy
    \/ \E b \in ByteSeqs : encode(b)
    \/ decode
    \/ Login
    \/ Register

Spec == Init /\ [][Next]_vars

-----------------------------------------------------------------------------
(* Scenarios: the behaviours of Spec in which the host and the user are       *)
(* limited to the events named.                                               *)

\* A render that changes one attribute, or none (another attribute changed).
changeOneAttr ==
    \/ \E wt \in WrappedTokens \cup {Null} :
          didReceiveAttrs(wt, component.namespace, component.selectedAuth)
    \/ \E ns \in Namespaces :
          didReceiveAttrs(component.wrappedToken, ns, component.selectedAuth)
    \/ \E sa \in SelectedAuths :
          didReceiveAttrs(component.wrappedToken, component.namespace, sa)

\* A render that passes a selection key, the same or another.
changeSelectedAuth ==
    \E sa \in SelectedAuths :
        didReceiveAttrs(component.wrappedToken, component.namespace, sa)

\* A render that changes the namespace.
changeNamespace ==
    \E ns \in Namespaces \ {component.namespace} :
        didReceiveAttrs(component.wrappedToken, ns, component.selectedAuth)

\* Attribute changes while the unwrap and the discovery are in flight.
NextAttrs ==
    \/ changeOneAttr
    \/ nextCallback
    \/ \E i \in DOMAIN unwrapToken, ct \in ClientTokens : unwrapSucceed(i, ct)
    \/ \E i \in DOMAIN unwrapToken, e \in Failures : unwrapFail(i, e)
    \/ \E i \in DOMAIN fetchMethods, m \in MountLists : fetchSucceed(i, m)
    \/ \E i \in DOMAIN fetchMethods, e \in Failures : fetchFail(i, e)
    \/ fillForm
    \/ destroy

SpecAttrs == Init /\ [][NextAttrs]_vars

\* The user submits the form, possibly again before the first call settled.
NextSubmit ==
    \/ nextCallback
    \/ \E i \in DOMAIN unwrapToken, ct \in ClientTokens : unwrapSucceed(i, ct)
    \/ \E i \in DOMAIN fetchMethods, m \in MountLists : fetchSucceed(i, m)
    \/ \E id \in authenticate : authSucceed(id)
    \/ \E id \in authenticate, mfaError \in BOOLEAN, detail \in ErrorDetails :
          authFail(id, mfaError, detail)
    \/ submit
    \/ setLoading
    \/ destroy

SpecSubmit == Init /\ [][NextSubmit]_vars

\* The component is unmounted while its tasks are in flight.
NextUnmount ==
    \/ Program
    \/ submit
    \/ destroy

SpecUnmount == Init /\ [][NextUnmount]_vars

\* Discovery runs started by namespace changes, against a server that reports
\* each namespace's mounts.
NextDiscovery ==
    \/ changeNamespace
    \/ nextCallback
    \/ \E i \in DOMAIN fetchMethods : fetchSucceed(i, mountsOf(fetchMethods[i].ns))
    \/ \E i \in DOMAIN fetchMethods, e \in Failures : fetchFail(i, e)

SpecDiscovery == Init /\ [][NextDiscovery]_vars

\* The parent leaves the attributes as it mounted the form; the server reports
\* any list of mounts, or fails; the component renders.
NextSettle ==
    \/ nextCallback
    \/ \E i \in DOMAIN fetchMethods, m \in ReportedLists : fetchSucceed(i, m)
    \/ \E i \in DOMAIN fetchMethods, e \in Failures : fetchFail(i, e)
    \/ didRender

SpecSettle == Init /\ [][NextSettle]_vars

\* Renders that change any of the attributes at once, while the user types.
NextPass ==
    \/ \E wt \in WrappedTokens \cup {Null}, ns \in Namespaces, sa \in SelectedAuths :
          didReceiveAttrs(wt, ns, sa)
    \/ nextCallback
    \/ fillForm

SpecPass == Init /\ [][NextPass]_vars

\* The server reports any list of mounts; the component renders.
NextMethods ==
    \/ changeSelectedAuth
    \/ nextCallback
    \/ \E i \in DOMAIN fetchMethods, m \in ReportedLists : fetchSucceed(i, m)
    \/ \E i \in DOMAIN fetchMethods, e \in Failures : fetchFail(i, e)
    \/ didRender

SpecMethods == Init /\ [][NextMethods]_vars

\* The user fills the form and submits it, before or after the mounts arrive.
NextPath ==
    \/ nextCallback
    \/ \E i \in DOMAIN fetchMethods, m \in MountLists : fetchSucceed(i, m)
    \/ didRender
    \/ fillForm
    \/ submit

SpecPath == Init /\ [][NextPath]_vars

\* The user types a username, or not, and signs in with WebAuthn.
NextLogin ==
    \/ fillForm
    \/ webauthnAuthenticate
    \/ \E res \in NoOptions \cup LoginOptions : loginBegin(res)
    \/ \E resolved \in BOOLEAN : loginGet(resolved)
    \/ \E res \in FinishResponses : loginFinish(res)

SpecLogin == Init /\ [][NextLogin]_vars

\* A user registers a credential.
NextRegister ==
    \/ registerWebauthn
    \/ \E res \in NoOptions \cup RegisterOptions : registerBegin(res)
    \/ \E resolved \in BOOLEAN : registerCreate(resolved)
    \/ \E res \in FinishResponses : registerFinish(res)

SpecRegister == Init /\ [][NextRegister]_vars

\* Credential material goes through the codec and back.
NextCodec ==
    \/ \E b \in ByteSeqs : encode(b)
    \/ decode

SpecCodec == Init /\ [][NextCodec]_vars

-----------------------------------------------------------------------------
(* Token unwrap *)

\* The authenticate calls made by the unwrap of wrapped token w.
callsOf(w) == {i \in DOMAIN authCalls : authCalls[i].origin = w}

\* C1: once the unwrap of a wrapped token has succeeded with client token ct,
\* authenticate has been called exactly once for it, with backend type token and
\* data.token = ct, whatever passes ran while the unwrap was in flight.
CxC1 ==
    \A u \in unwrapOk :
        /\ Cardinality(callsOf(u.wrapped)) = 1
        /\ \A i \in callsOf(u.wrapped) :
              /\ authCalls[i].backend = TOKEN
              /\ "token" \in DOMAIN authCalls[i].data
              /\ authCalls[i].data["token"] = u.client

\* C2: at most one unwrap call is started for any wrapped-token value.
CxC2 == \A w \in WrappedTokens : unwrapCalls[w] <= 1

\* C3 as stated: every non-empty wrapped-token value a pass of the live component
\* has handled has had an unwrap call started for it.
CxC3 == \A w \in handled : unwrapCalls[w] >= 1

\* C3 as amended: the first non-empty wrapped-token value handled, and the value
\* recorded as last handled, have had their unwrap call started; a pass requested
\* once a value is recorded (oldWrappedToken set) starts no unwrap.
ThmC3 ==
    /\ [](/\ firstToken # Null => unwrapCalls[firstToken] >= 1
          /\ component.oldWrappedToken # Null =>
                unwrapCalls[component.oldWrappedToken] >= 1)
    /\ [][(timers # <<>> /\ timers' = Tail(timers) /\ Head(timers).oldToken # Null)
             => unwrapCalls' = unwrapCalls]_vars

\* A second, different value was handled and no unwrap was started for it.
WitC3 ==
    /\ firstToken # Null
    /\ unwrapCalls[firstToken] >= 1
    /\ \E w \in handled : w # firstToken /\ unwrapCalls[w] = 0

\* C4: once the unwrap of a wrapped token has failed, authenticate is not called
\* for that token and no further unwrap call is started for it.
CxC4 ==
    /\ [](\A w \in unwrapFailed : callsOf(w) = {})
    /\ [][\A w \in unwrapFailed : unwrapCalls'[w] = unwrapCalls[w]]_vars

-----------------------------------------------------------------------------
(* Attribute-change passes *)

formFields == {"username", "password", "token", "customPath"}

\* The deferred callback of a pass has just run on the live component, and its
\* previously observed selectedAuth was non-empty and differed from the new one.
resetPassRan == ~isDestroyed /\ lastOp.op = "next" /\ lastOp.reset

\* C5 as stated: after such a pass username, password, token, customPath and
\* error are all unset.
CxC5 ==
    resetPassRan =>
        /\ \A f \in formFields : component[f] = Null
        /\ component.error = NoError

\* C5 as amended: after such a pass username, password, token and customPath are
\* unset (error is not among the fields the reset clears).
ThmC5 == resetPassRan => \A f \in formFields : component[f] = Null

\* The reset ran and the error of the previous backend is still shown.
WitC5 ==
    /\ resetPassRan
    /\ \A f \in formFields : component[f] = Null
    /\ component.error # NoError

\* C6: the callback of a pass starts Method Discovery exactly when no wrapped
\* token is present and the namespace differs from the last-observed one, the
\* initial mount counting as a change and none-to-none as no change.
CxC6 ==
    [][(timers # <<>> /\ timers' = Tail(timers) /\ ~isDestroyed) =>
          LET p == Head(timers)
          IN  (Len(fetchMethods') = Len(fetchMethods) + 1)
                  <=> (p.token = Null /\ (p.initial \/ p.ns # p.oldNS))]_vars

-----------------------------------------------------------------------------
(* Submit and authenticate *)

\* C7: when every authenticate call has settled and at least two were made, the
\* task that wrote the form state last is the one started last.
CxC7 ==
    (~isDestroyed /\ authenticate = {} /\ Len(authCalls) >= 2)
        => lastWriter = Len(authCalls)

\* C8: once the component is destroyed no step changes its properties, calls
\* onSuccess, starts an authenticate call or lets a reminder timeout fire.
ThmC8 ==
    [][isDestroyed =>
          /\ component' = component
          /\ onSuccessCalls' = onSuccessCalls
          /\ authCalls' = authCalls
          /\ reminders' = reminders
          /\ showLoading' = showLoading]_vars

\* An authenticate call resolved after the unmount, a reminder still pending.
WitC8 ==
    /\ isDestroyed
    /\ lastOp.op = "authSucceed"
    /\ reminders > 0
    /\ onSuccessCalls = {}

\* An authenticate call has just rejected on the live component.
authFailed == ~isDestroyed /\ lastOp.op = "authFail"

\* C9: a rejected authenticate call clears isLoading; it sets error to
\* "Authentication failed: {detail}" when the failure is not multi-factor-required,
\* and otherwise leaves error as it was and does not call onSuccess.
ThmC9 ==
    /\ [](authFailed =>
            /\ component.isLoading = FALSE
            /\ ~lastOp.mfaError =>
                  component.error = <<"Authentication failed: ", lastOp.detail>>)
    /\ [][(~isDestroyed /\ lastOp'.op = "authFail" /\ lastOp'.mfaError) =>
             /\ component'.error = component.error
             /\ onSuccessCalls' = onSuccessCalls]_vars

\* A multi-factor-required failure left the error cleared by the submit.
WitC9 ==
    /\ authFailed
    /\ lastOp.mfaError
    /\ component.error = NoError
    /\ component.isLoading = FALSE
    /\ onSuccessCalls = {}

\* C10: no exception escapes a failed discovery, unwrap or authenticate, and on
\* the live component the failure leaves a message in error.
CxC10 ==
    /\ uncaught \cap {"unwrapToken", "fetchMethods", "authenticate"} = {}
    /\ (~isDestroyed /\ lastOp.op \in {"unwrapFail", "fetchFail", "authFail"})
          => component.error # NoError

-----------------------------------------------------------------------------
(* Method Discovery *)

\* C11: after a discovery run fails (with an errors list in the rejection), on
\* a first run or on a re-run, methods is unset and error holds the message of
\* the discovery failure.
CxC11 ==
    (~isDestroyed /\ lastOp.op = "fetchFail" /\ "fetchMethods" \notin uncaught)
        => /\ component.methods.isNull
           /\ component.error # NoError
           /\ Head(component.error) = "There was an error fetching Auth Methods: "

\* C20: once every discovery run has settled, all of them successfully, methods
\* holds the mounts of the current namespace, whatever order they settled in.
CxC20 ==
    (/\ ~isDestroyed /\ timers = <<>> /\ fetchMethods = <<>>
     /\ ~component.methods.isNull
     /\ component.error = NoError /\ uncaught = {})
        => component.methods = Methods(mountsOf(component.namespace))

-----------------------------------------------------------------------------
(* Candidate methods and the default selection *)

\* The mounts in the methods field, none when it is unset.
reported == IF component.methods.isNull THEN <<>> ELSE component.methods.list

\* The positions of the reported mounts whose type is a catalog type, case aside.
knownPositions ==
    {i \in DOMAIN reported :
        \E b \in Range(BACKENDS) : toLowerCase(b.type) = toLowerCase(reported[i].type)}

\* C12: methodsToShow is the reported mounts of a catalog type (compared without
\* regard to case), all of them and in reported order; when there is none
\* (no mount reported, or methods unset) it is the full catalog.
ThmC12 ==
    LET shown == methodsToShow(component)
    IN  IF knownPositions = {} THEN shown = BACKENDS
        ELSE /\ Len(shown) = Cardinality(knownPositions)
             /\ \E f \in [DOMAIN shown -> knownPositions] :
                   /\ \A k \in DOMAIN shown : shown[k] = reported[f[k]]
                   /\ \A k, l \in DOMAIN shown : k < l => f[k] < f[l]

\* A mount of unknown type was dropped and a mount whose type differs from the
\* catalog's by case was kept.
WitC12 ==
    /\ reported = <<ApproleMount, TokMount>>
    /\ methodsToShow(component) = <<TokMount>>

\* C13 as stated: no two entries of the filtered list have the same type.
CxC13 ==
    LET shown == methodsToShow(component)
    IN  \A i, j \in DOMAIN shown :
            i < j => toLowerCase(shown[i].type) # toLowerCase(shown[j].type)

\* C13 as amended: two entries of the filtered list have the same type only when
\* both are mounts the server reported, at different paths; the filter itself
\* adds no entry of a type already listed.
ThmC13 ==
    LET shown == methodsToShow(component)
    IN  \A i, j \in DOMAIN shown :
            (i < j /\ toLowerCase(shown[i].type) = toLowerCase(shown[j].type))
                => /\ shown[i] \in Range(reported)
                   /\ shown[j] \in Range(reported)
                   /\ pathOf(shown[i]) # pathOf(shown[j])

\* Two userpass mounts were reported and both are listed.
WitC13 ==
    /\ reported = <<FooMount, BarMount>>
    /\ methodsToShow(component) = <<FooMount, BarMount>>

\* No discovery in flight, no deferred callback of a pass pending, and the
\* callback of the last render has run.
quiescent ==
    ~isDestroyed /\ timers = <<>> /\ fetchMethods = <<>> /\ lastOp.op = "didRender"

\* The selection key resolves to one of the current candidates.
resolvesToCandidate ==
    LET b == selectedAuthBackend(component)
    IN  /\ b.kind = "object"
        /\ \E m \in Range(allSupportedMethods(component)) :
              /\ m.type = b.type
              /\ (IF "id" \in DOMAIN m THEN m.id ELSE Null) = b.id

-----------------------------------------------------------------------------
(* The default selection settles *)

\* The callback of a render runs and finds its condition true.
selects ==
    /\ lastOp'.op = "didRender"
    /\ ~isDestroyed
    /\ shouldSelect(component, fetchMethods = <<>>)

\* C24: with no wrapped token, once the step run after a render has set
\* selectedAuth to the first candidate, its condition is false on the following
\* render, whether a discovery is in flight or not: selectedAuth is the first
\* candidate and resolves (to a backend, or to the empty descriptor while methods
\* is unset), so a render that follows with methods unchanged sets nothing.
ThmC24 ==
    [][selects =>
          /\ component'.wrappedToken = Null
          /\ component'.methods = component.methods
          /\ component'.selectedAuth = firstMethod(component)
          /\ component'.selectedAuth # Unset
          /\ \A isIdle \in BOOLEAN :
                /\ ~shouldSelect(component', isIdle)
                /\ afterRender(component', isIdle) = component'
          /\ selectedAuthBackend(component').kind \in {"object", "empty"}
      ]_vars

\* The parent selected foo/, the server reported a mount at bar/ only, and the
\* step run after the render replaced the key by bar/, where it stays.
WitC24 ==
    /\ lastOp.op = "didRender"
    /\ component.wrappedToken = Null
    /\ component.oldSelectedAuth = FOO_PATH
    /\ reported = <<BarMount>>
    /\ component.selectedAuth = BarMount.path
    /\ ~shouldSelect(component, fetchMethods = <<>>)

-----------------------------------------------------------------------------
(* The path sent with a submit *)

\* The user's doSubmit has just handed its data to authenticate.
submitted == ~isDestroyed /\ lastOp.op = "submit" /\ ~lastOp.threw

\* The id of the mount the selection key names: none for a key that is a bare
\* type, names no reported mount, or names a mount of the oidc provider (whose
\* submit goes by the catalog's token backend).
mountId ==
    LET key == component.selectedAuth
        named == {i \in DOMAIN reported : reported[i].path = key}
    IN  IF key # Unset /\ key[Len(key)] = "/" /\ named # {}
        THEN LET m == reported[CHOOSE i \in named : \A j \in named : i <= j]
             IN  IF toLowerCase(m.type) = OIDC THEN Null ELSE m.id
        ELSE Null

\* C15: the data doSubmit passes to authenticate has a path field exactly when
\* customPath is set or the resolved backend has a mount id; it is customPath
\* when that is set and the mount id otherwise, so the key "foo/" of a userpass
\* mount with id foo sends path "foo".
ThmC15 ==
    submitted =>
        LET data == authCalls[Len(authCalls)].data
        IN  /\ ("path" \in DOMAIN data)
                  <=> (component.customPath # Null \/ mountId # Null)
            /\ ("path" \in DOMAIN data) =>
                  data["path"] = (IF component.customPath # Null
                                  THEN component.customPath ELSE mountId)
            /\ (/\ component.selectedAuth = FOO_PATH
                /\ reported = <<FooMount>>
                /\ component.customPath = Null) => data["path"] = "foo"

\* The form was submitted with the key "foo/" and no custom path.
WitC15 ==
    /\ submitted
    /\ component.selectedAuth = FOO_PATH
    /\ reported = <<FooMount>>
    /\ component.customPath = Null
    /\ authCalls[Len(authCalls)].backend = USERPASS
    /\ authCalls[Len(authCalls)].data["path"] = "foo"

-----------------------------------------------------------------------------
(* WebAuthn ceremonies *)

\* C16: an assertion ceremony invoked with an empty or unset username issues
\* no request to the login-begin endpoint and does not invoke the platform.
CxC16 == (login.pc # "idle" /\ login.username = Null) => login.calls = <<>>

CeremonySteps ==
    <<"Prompt", "ChallengeFetch", "Decode", "CredentialCreate", "Encode", "Submit">>

\* C17: a registration ceremony takes its steps in the fixed order, none
\* twice, and ends with exactly one notification: success when every step
\* succeeded and the finish request was answered 2xx, failure otherwise.
CxC17 ==
    /\ Len(register.steps) <= Len(CeremonySteps)
    /\ register.steps = SubSeq(CeremonySteps, 1, Len(register.steps))
    /\ Len(register.alerts) <= 1
    /\ (register.pc = "done") =>
          /\ Len(register.alerts) = 1
          /\ (register.alerts[1] = "success")
                <=> (~register.failed /\ register.finishOk)

\* C18: when a step of an assertion ceremony started with a username fails
\* (the finish request answered with an error included), authenticate and
\* onSuccess are not called and the cause is stored in error.
CxC18 ==
    (/\ login.username # Null
     /\ login.pc = "failed" \/ (login.pc = "done" /\ ~login.finishOk))
        => /\ component.error # NoError
           /\ authCalls = <<>>
           /\ onSuccessCalls = {}

-----------------------------------------------------------------------------
(* The order of the triggers of a pass *)

\* The deferred callback of a pass runs on a live component.
passRan == timers # <<>> /\ timers' = Tail(timers) /\ ~isDestroyed

\* A pass is requested.
passRequested == Len(timers') = Len(timers) + 1

\* C22: on every attribute-change pass the discovery check comes before the
\* unwrap check and the unwrap check before the reset check, each decided by the
\* attribute values captured when the pass was requested; on a pass that both
\* starts the unwrap and resets, the unwrap has forced selectedAuth to token
\* before the reset is applied.
ThmC22 ==
    [][/\ passRequested =>
            LET p == timers'[Len(timers')]
            IN  /\ p.token = component'.wrappedToken
                /\ p.oldToken = component'.oldWrappedToken
                /\ p.ns = component'.namespace
                /\ p.oldNS = component'.oldNamespace
                /\ p.newMethod = component'.selectedAuth
                /\ p.oldMethod = component'.oldSelectedAuth
       /\ passRan =>
            LET p == Head(timers)
                steps == callbackSteps(component, p)
                at(name) == {i \in DOMAIN steps : steps[i].step = name}
                discovery == at("fetchMethods.perform")
                unwrap == at("unwrapToken.perform")
                reset == at("resetDefaults")
            IN  /\ \A i \in discovery, j \in unwrap \cup reset : i < j
                /\ \A i \in unwrap, j \in reset :
                      /\ i < j
                      /\ steps[i].then.selectedAuth = TOKEN
                      /\ steps[j].on.selectedAuth = TOKEN
                      /\ steps[j].on.oldWrappedToken = p.token
                /\ discovery # {} <=> (p.token = Null /\ (p.oldNS = Null \/ p.oldNS # p.ns))
                /\ discovery # {} <=> Len(fetchMethods') = Len(fetchMethods) + 1
                /\ unwrap # {} <=> (p.token # Null /\ p.oldToken = Null)
                /\ unwrap # {} <=> Len(unwrapToken') = Len(unwrapToken) + 1
                /\ reset # {} <=> (p.oldMethod # Unset /\ p.oldMethod # p.newMethod)
                /\ reset # {} <=> lastOp'.reset
                /\ component' = steps[Len(steps)].then
      ]_vars

\* A pass that received a wrapped token and a changed selectedAuth has run, after
\* the mounting pass started the discovery: it started the unwrap and it reset
\* the fields the user had filled.
WitC22 ==
    /\ lastOp.op = "next" /\ lastOp.reset
    /\ timers = <<>>
    /\ fetchMethods # <<>> /\ unwrapToken # <<>>
    /\ component.selectedAuth = TOKEN
    /\ component.oldSelectedAuth = FOO_PATH
    /\ component.oldWrappedToken = component.wrappedToken
    /\ component.username = Null

-----------------------------------------------------------------------------
(* Resolving the selected backend *)

\* C21: resolving the selected backend with no explicit type does not fail:
\* whenever selectedAuth ends in "/" and the lookup goes by path (methods or a
\* wrapped token being present), methods is set.
CxC21 ==
    ~isDestroyed =>
        /\ (selectedAuthIsPath(component)
              /\ ~(component.methods.isNull /\ component.wrappedToken = Null))
                => ~component.methods.isNull
        /\ selectedAuthBackend(component).kind # "throw"

\* The selected key ends in "/".
endsInSlash ==
    LET s == component.selectedAuth IN s # Unset /\ s[Len(s)] = "/"

\* The result is the mount at the selected path, or undefined when there is none.
byPath ==
    LET b == selectedAuthBackend(component)
        hits == {m \in Range(reported) : m.path = component.selectedAuth}
    IN  /\ b.kind \in {"object", "undefined"}
        /\ b.kind = "object" <=> hits # {}
        /\ b.kind = "object" => \E m \in hits : b.type = m.type /\ b.id = m.id

\* The result is the catalog entry of the selected type, or undefined when
\* there is none.
byType ==
    LET b == selectedAuthBackend(component)
        hits == {e \in Range(BACKENDS) : e.type = component.selectedAuth}
    IN  /\ b.kind \in {"object", "undefined"}
        /\ b.kind = "object" <=> hits # {}
        /\ b.kind = "object" => b.type = component.selectedAuth /\ b.id = Null

\* C23 as stated: the lookup for the selected key goes by path against methods
\* for every key ending in "/", and by type against the catalog for every other.
CxC23 ==
    component.selectedAuth # Unset =>
        IF endsInSlash THEN ~component.methods.isNull /\ byPath ELSE byType

\* C23, amended: with methods set the lookup goes by path for a key ending in
\* "/" and by type for any other; with methods unset and no wrapped token it
\* yields the empty descriptor for every key; with methods unset and a wrapped
\* token it goes by type for a key without "/" and fails for a key ending in "/".
ThmC23 ==
    LET b == selectedAuthBackend(component)
    IN  IF ~component.methods.isNull
        THEN IF endsInSlash THEN byPath ELSE byType
        ELSE IF component.wrappedToken = Null
             THEN b.kind = "empty"
             ELSE IF endsInSlash THEN b.kind = "throw" ELSE byType

\* After a render, with two mounts reported, the selected key is the path of
\* one of them and resolves to it.
WitC23 ==
    /\ lastOp.op = "didRender"
    /\ Len(reported) = 2
    /\ endsInSlash
    /\ selectedAuthBackend(component).kind = "object"
    /\ selectedAuthBackend(component).id # Null

-----------------------------------------------------------------------------
(* Base64URL codec *)

\* C19: for every byte sequence b whose length is not a multiple of 3,
\* bufferDecode(bufferEncode(b)) succeeds and yields exactly b.
CxC19 ==
    (codec.pc = "decoded" /\ Len(codec.input) % 3 # 0)
        => (codec.out.ok /\ codec.out.bytes = codec.input)

====
